---- MODULE Spec2Model ----
(***************************************************************************)
(* Password-reset web flow of OlimpoHub/web: the typed HTTP client         *)
(* (lib/passwordApi.ts), the two hooks (hooks/useResetPassword.ts), the    *)
(* reset-password page and the development proxy, as state machines.       *)
(*                                                                         *)
(* Strings that the code inspects character by character (the email, the   *)
(* proxy's backend URL) are sequences of atoms; messages the code only     *)
(* copies are TLA+ strings.  Accented letters of the source's messages are *)
(* written without the accent.                                             *)
(***************************************************************************)
EXTENDS Integers, Sequences, FiniteSets, TLC

\* ------------------------------------------------------------------ bounds

\* Longest email typed into the request-reset form ("a@a.a" needs 5).
MaxEmailLen == 5
\* Most calls one hook has awaiting the network at a time.
MaxInFlight == 2

\* ------------------------------------------------------- common vocabulary

\* JavaScript's null and undefined, among string-valued fields.
Null == "<null>"
Undefined == "<undefined>"

\* err.status of an Error that is not an ApiError (the property is absent).
NoStatus == -1

\* ------------------------------------------------------------- the state

VARIABLES
    \* lib/passwordApi.ts: process configuration
    API_BASE,
    \* useRequestReset
    rrEmail, rrLoading, rrError, rrInfo,
    \* how many requestRecoveryEmail calls of the hook await the network, and
    \* whether the one awaited call has had no other submit() run since it began
    rrPending, rrSolo,
    \* history: the result of the last completed call (solo: it overlapped no
    \* other), and what the first solo call that got a response for the
    \* current email left on screen
    rrLast, rrFirst,
    \* useResetPassword
    rpToken, rpVerifiedEmail, rpIsTokenValid, rpLoadingVerify, rpLoadingSubmit,
    rpError, rpSuccess,
    \* how many verifyToken / updatePassword calls of the hook await the network
    rpVerifyPending, rpSubmitPending,
    \* history: what the latest step of the hook did, and what the most
    \* recently completed verifyToken call returned
    rpEvent, rpLastVerify,
    \* pages/reset-password.tsx: the router's token and the component state
    pgToken, pgVerifying, pgVerifyError, pgVerifyResult,
    pgPassword, pgConfirm, pgFormError, pgFormLoading, pgFormSuccess, pgPasteToken,
    \* the page's verifyToken calls awaiting the network (how many, per
    \* token), and the arguments of its awaited updatePassword call
    pgVerifyPending, pgSubmitCall,
    \* history: what the latest step of the page did
    pgEvent,
    \* history: the token whose verifyToken call last wrote verifyResult or
    \* verifyError (Undefined: none, or cleared), and the email of the
    \* updatePassword call that succeeded since verifyResult was last written
    \* (Null: none)
    pgResultOf, pgUpdatedEmail,
    \* pages/api/proxy/user/[...slug].ts: process configuration
    BACKEND_BASE,
    \* one run of the proxy's handler: where it is, the inbound request, the
    \* fetches it issued, the backend's response, the response object res
    pxPc, pxReq, pxFetches, pxBackendRes, pxRes,
    \* history: the error of the first fetch, and which step failed
    pxErr, pxFailure,
    \* lib/passwordApi.ts, one call of the client on its own: where it is,
    \* the function called with its arguments, the fetch it issued, what the
    \* network did with it, what the caller got
    clPc, clCall, clFetch, clNet, clResult,
    \* the mock verify-token endpoint: the request handled and its response
    mvPc, mvReq, mvRes,
    \* pages/api/user/update-password.ts: where the handler is (idle, waiting
    \* for its timer, done), the request handled and its response
    muPc, muReq, muRes

rrVars == <<rrEmail, rrLoading, rrError, rrInfo, rrPending, rrSolo, rrLast, rrFirst>>

rpVars ==
    <<rpToken, rpVerifiedEmail, rpIsTokenValid, rpLoadingVerify, rpLoadingSubmit,
      rpError, rpSuccess, rpVerifyPending, rpSubmitPending, rpEvent, rpLastVerify>>

pgVars ==
    <<pgToken, pgVerifying, pgVerifyError, pgVerifyResult, pgPassword, pgConfirm,
      pgFormError, pgFormLoading, pgFormSuccess, pgPasteToken, pgVerifyPending,
      pgSubmitCall, pgEvent, pgResultOf, pgUpdatedEmail>>

pxVars == <<BACKEND_BASE, pxPc, pxReq, pxFetches, pxBackendRes, pxRes, pxErr, pxFailure>>

clVars == <<clPc, clCall, clFetch, clNet, clResult>>

mvVars == <<mvPc, mvReq, mvRes>>

muVars == <<muPc, muReq, muRes>>

vars == <<API_BASE, rrVars, rpVars, pgVars, pxVars, clVars, mvVars, muVars>>

\* What the steps of one component leave alone: the other components.
rrOthers == <<rpVars, pgVars, pxVars, clVars, mvVars, muVars>>
rpOthers == <<rrVars, pgVars, pxVars, clVars, mvVars, muVars>>
pgOthers == <<rrVars, rpVars, pxVars, clVars, mvVars, muVars>>
pxOthers == <<API_BASE, rrVars, rpVars, pgVars, clVars, mvVars, muVars>>
clOthers == <<rrVars, rpVars, pgVars, pxVars, mvVars, muVars>>
mvOthers == <<API_BASE, rrVars, rpVars, pgVars, pxVars, clVars, muVars>>
muOthers == <<API_BASE, rrVars, rpVars, pgVars, pxVars, clVars, mvVars>>

\* ------------------------------------------------------------------ email

\* The characters an email is typed from: a letter, '@', '.', a blank.
EmailChars == {"a", "@", ".", " "}

\* The character class [^@\s] of the regular expression.
NotAtNorSpace(c) == c # "@" /\ c # " "

AllNotAtNorSpace(e, from, to) == \A i \in from..to : NotAtNorSpace(e[i])

\* Mutant: the pattern without its "\.[^@\s]+" (no dot asked of the domain).
EmailRegexTest_NoDomainDot(e) ==
    \E a \in 1..Len(e) :
        /\ a + 2 <= Len(e)
        /\ AllNotAtNorSpace(e, 1, a)
        /\ e[a + 1] = "@"
        /\ AllNotAtNorSpace(e, a + 2, Len(e))

\* /^[^@\s]+@[^@\s]+\.[^@\s]+$/.test(email): a local part of a >= 1
\* characters, '@', b >= 1 characters, '.', c >= 1 characters.
EmailRegexTest(e) ==
    \E a \in 1..Len(e) : \E b \in 1..Len(e) :
        /\ a + 1 + b + 1 + 1 <= Len(e)
        /\ AllNotAtNorSpace(e, 1, a)
        /\ e[a + 1] = "@"
        /\ AllNotAtNorSpace(e, a + 2, a + 1 + b)
        /\ e[a + b + 2] = "."
        /\ AllNotAtNorSpace(e, a + b + 3, Len(e))

\* ------------------------------------------------------- lib/passwordApi

\* API_BASE values: unset, a relative path (with and without a trailing
\* slash), an absolute URL.  A base is a sequence of atoms.
ApiBases == { <<>>, <<"/api/proxy", "/">>, <<"http://", "localhost:8080">> }

\* /^[a-zA-Z][a-zA-Z0-9+.-]*:\/\//.test(API_BASE)
HasScheme(base) == Len(base) > 0 /\ base[1] \in {"http://", "https://"}

\* base.replace(/\/$/, '')
StripTrailingSlash(base) ==
    IF Len(base) > 0 /\ base[Len(base)] = "/" THEN SubSeq(base, 1, Len(base) - 1) ELSE base

\* Mutant: buildUrl without the test of API_BASE.
buildUrl_NoCheck(path) ==
    [threw |-> FALSE, message |-> "", url |-> StripTrailingSlash(API_BASE) \o <<path>>]

\* buildUrl(path), for the paths the client passes (all start with '/'):
\* throws when no base is configured; new URL(path, base) keeps the base's
\* origin; a relative base is concatenated.
buildUrl(path) ==
    IF API_BASE = <<>>
    THEN [threw |-> TRUE, message |-> "NEXT_PUBLIC_API_BASE is not set", url |-> <<>>]
    ELSE IF HasScheme(API_BASE)
         THEN [threw |-> FALSE, message |-> "", url |-> SubSeq(API_BASE, 1, 2) \o <<path>>]
         ELSE [threw |-> FALSE, message |-> "", url |-> StripTrailingSlash(API_BASE) \o <<path>>]

\* What an awaited client call gives its caller: a value (threw = FALSE) or
\* a thrown error with err.status and err.message.  origin tells where it
\* arose: "local" (before any fetch), "transport" (fetch rejected), "http"
\* (a response was received).  valid/email are verifyToken's value.
Result(threw, origin, status, message, valid, email) ==
    [threw |-> threw, origin |-> origin, status |-> status, message |-> message,
     valid |-> valid, email |-> email]

NoResult == Result(FALSE, "none", NoStatus, "", FALSE, Null)

\* new ApiError(status, message, data)
ApiError(origin, status, message) == Result(TRUE, origin, status, message, FALSE, Null)

\* What the network does with one fetch: it rejects (failed, with the
\* error's message), or a response arrives.  A response has its status and
\* status text, whether its content type is JSON, whether its body parses,
\* and the body: the fields message, error, valid, email when JSON
\* (Undefined for an absent field), the raw text otherwise.
Statuses == {200, 204, 400, 404, 422, 500}

HttpResponse(status, statusText, json, parses, message, error, valid, email, text) ==
    [failed |-> FALSE, cause |-> "", status |-> status, statusText |-> statusText,
     json |-> json, parses |-> parses, message |-> message, error |-> error,
     valid |-> valid, email |-> email, text |-> text]

FetchRejection(cause) ==
    [failed |-> TRUE, cause |-> cause, status |-> 0, statusText |-> "",
     json |-> FALSE, parses |-> FALSE, message |-> Undefined, error |-> Undefined,
     valid |-> Undefined, email |-> Undefined, text |-> ""]

\* A JSON body with the given fields, a text body, a body that fails to parse.
JsonBody(status, statusText, message, error, valid, email) ==
    HttpResponse(status, statusText, TRUE, TRUE, message, error, valid, email, "")

TextBody(status, statusText, text) ==
    HttpResponse(status, statusText, FALSE, TRUE, Undefined, Undefined, Undefined, Undefined, text)

BrokenBody(status, statusText, json) ==
    HttpResponse(status, statusText, json, FALSE, Undefined, Undefined, Undefined, Undefined, "")

\* The outcomes the network is drawn from.
NetOutcomes ==
    { FetchRejection("Failed to fetch"),
      JsonBody(200, "OK", Undefined, Undefined, "true", "user@example.com"),
      JsonBody(200, "OK", Undefined, Undefined, "true", Undefined),
      JsonBody(200, "OK", Undefined, Undefined, "true", ""),
      JsonBody(200, "OK", Undefined, Undefined, "false", "user@example.com"),
      JsonBody(200, "OK", "Token invalido o expirado", Undefined, "false", Undefined),
      TextBody(204, "", ""),
      JsonBody(404, "Not Found", "User not found", Undefined, Undefined, Undefined),
      JsonBody(422, "", "Password too weak", "policy", Undefined, Undefined),
      JsonBody(400, "Bad Request", "", "backend error", Undefined, Undefined),
      TextBody(500, "Internal Server Error", "plain text"),
      BrokenBody(500, "", TRUE) }

\* Mutant: the rejection of fetch is passed on as it is.
fetchWithHandling_Rethrow(net) ==
    IF net.failed
    THEN [threw |-> TRUE, origin |-> "transport", status |-> NoStatus,
          message |-> net.cause, valid |-> FALSE, email |-> Null]
    ELSE [threw |-> FALSE, origin |-> "none", status |-> NoStatus,
          message |-> "", valid |-> FALSE, email |-> Null]

\* fetchWithHandling: a rejected fetch becomes ApiError(0, ...).
fetchWithHandling(net) ==
    IF net.failed
    THEN ApiError("transport", 0, "Network error or CORS issue: " \o net.cause)
    ELSE NoResult

\* The body handleResponse ends up with: null when parsing failed, else the
\* parsed JSON object or the text.
BodyIsTruthy(net) ==
    /\ net.parses
    /\ (net.json \/ net.text # "")

\* Mutant: body.error is looked at before body.message.
BodyMessageOrError_ErrorFirst(net) ==
    IF ~net.json THEN Undefined
    ELSE IF net.error \notin {Undefined, ""} THEN net.error
    ELSE IF net.message \notin {Undefined, ""} THEN net.message
    ELSE Undefined

\* body.message || body.error, Undefined when neither is truthy (a text
\* body has neither property).
BodyMessageOrError(net) ==
    IF ~net.json THEN Undefined
    ELSE IF net.message \notin {Undefined, ""} THEN net.message
    ELSE IF net.error \notin {Undefined, ""} THEN net.error
    ELSE Undefined

\* (body && (body.message || body.error)) || res.statusText || 'Request failed'
ErrorMessageOf(net) ==
    IF BodyIsTruthy(net) /\ BodyMessageOrError(net) # Undefined THEN BodyMessageOrError(net)
    ELSE IF net.statusText # "" THEN net.statusText
    ELSE "Request failed"

\* res.ok
ResOk(net) == net.status >= 200 /\ net.status <= 299

\* handleResponse(res): throws ApiError(res.status, message) when !res.ok,
\* returns the body otherwise (valid/email are the body's fields, Undefined
\* when the body is null, a text, or lacks them).
handleResponse(net) ==
    IF ~ResOk(net)
    THEN ApiError("http", net.status, ErrorMessageOf(net))
    ELSE Result(FALSE, "http", net.status, "",
                IF net.json /\ net.parses THEN net.valid = "true" ELSE FALSE,
                IF net.json /\ net.parses THEN net.email ELSE Undefined)

\* What an async function that awaits handleResponse and returns nothing
\* gives its caller: the thrown error, or no value.
Void(r) == IF r.threw THEN r ELSE Result(FALSE, r.origin, r.status, "", FALSE, Null)

\* The error of a throwing buildUrl, as the awaiting caller catches it.
LocalError(path) == Result(TRUE, "local", NoStatus, buildUrl(path).message, FALSE, Null)

\* requestRecoveryEmail(email), given what the network does with its fetch.
requestRecoveryEmail(email, net) ==
    IF buildUrl("/user/recover-password").threw THEN LocalError("/user/recover-password")
    ELSE IF net.failed THEN fetchWithHandling(net)
    ELSE Void(handleResponse(net))

\* verifyToken(token): { valid: Boolean(body?.valid), email: body?.email ?? null }
verifyToken(token, net) ==
    IF buildUrl("/user/verify-token").threw THEN LocalError("/user/verify-token")
    ELSE IF net.failed THEN fetchWithHandling(net)
    ELSE IF handleResponse(net).threw THEN handleResponse(net)
    ELSE Result(FALSE, "http", net.status, "", handleResponse(net).valid,
                IF handleResponse(net).email = Undefined THEN Null ELSE handleResponse(net).email)

\* updatePassword(email, password)
updatePassword(email, password, net) ==
    IF buildUrl("/user/update-password").threw THEN LocalError("/user/update-password")
    ELSE IF net.failed THEN fetchWithHandling(net)
    ELSE Void(handleResponse(net))

\* A call of the client: the function and its arguments ("" for the
\* arguments the function does not take).
ClientCall(fn, email, token, password) ==
    [fn |-> fn, email |-> email, token |-> token, password |-> password]

NoClientCall == ClientCall("none", "", "", "")

ClientCalls ==
    { ClientCall("requestRecoveryEmail", e, "", "") : e \in {"", "a@a.a", "user@example.com"} }
    \cup { ClientCall("verifyToken", "", t, "") : t \in {"", "tok", "valid-1"} }
    \cup { ClientCall("updatePassword", e, "", p) :
             e \in {"", "user@example.com"}, p \in {"", "12345678"} }

\* The path each function hands to buildUrl, and the method of its fetch.
PathOf(fn) ==
    CASE fn = "requestRecoveryEmail" -> "/user/recover-password"
      [] fn = "verifyToken" -> "/user/verify-token"
      [] fn = "updatePassword" -> "/user/update-password"

MethodOf(fn) == IF fn = "verifyToken" THEN "GET" ELSE "POST"

\* What the awaited call gives, by function.
ClientResult(call, net) ==
    CASE call.fn = "requestRecoveryEmail" -> requestRecoveryEmail(call.email, net)
      [] call.fn = "verifyToken" -> verifyToken(call.token, net)
      [] call.fn = "updatePassword" -> updatePassword(call.email, call.password, net)

\* The fetch of a call (issued = FALSE: none).
ClientFetch(issued, url, method) == [issued |-> issued, url |-> url, method |-> method]

NoClientFetch == ClientFetch(FALSE, <<>>, "")

\* A function of the client is called: buildUrl throws and the call is
\* over, or the fetch is issued and awaited.
client_call(call) ==
    /\ clPc = "idle"
    /\ clCall' = call
    /\ IF buildUrl(PathOf(call.fn)).threw
       THEN /\ clResult' = LocalError(PathOf(call.fn))
            /\ clPc' = "done"
            /\ UNCHANGED clFetch
       ELSE /\ clFetch' = ClientFetch(TRUE, buildUrl(PathOf(call.fn)).url, MethodOf(call.fn))
            /\ clPc' = "awaiting"
            /\ UNCHANGED clResult
    /\ UNCHANGED <<API_BASE, clNet>>
    /\ UNCHANGED clOthers

\* The network settles the fetch: fetchWithHandling, handleResponse and the
\* function's return.
client_settle(net) ==
    /\ clPc = "awaiting"
    /\ clNet' = net
    /\ clResult' = ClientResult(clCall, net)
    /\ clPc' = "done"
    /\ UNCHANGED <<API_BASE, clCall, clFetch>>
    /\ UNCHANGED clOthers

ClientStart ==
    /\ clPc = "idle"
    /\ clCall = NoClientCall
    /\ clFetch = NoClientFetch
    /\ clNet = FetchRejection("")
    /\ clResult = NoResult

ClientCalled == \E call \in ClientCalls : client_call(call)

\* Responses with a non-success status, over every shape of body: JSON
\* with each combination of an absent, empty or filled message and error,
\* JSON that does not parse, text, empty text, text that cannot be read;
\* with and without a status text.
ErrorOutcomes ==
    { JsonBody(st, stt, m, e, Undefined, Undefined) :
        st \in {400, 500}, stt \in {"", "Bad"},
        m \in {Undefined, "", "m"}, e \in {Undefined, "", "e"} }
    \cup { BrokenBody(st, stt, j) : st \in {400, 500}, stt \in {"", "Bad"}, j \in BOOLEAN }
    \cup { TextBody(st, stt, t) : st \in {400, 500}, stt \in {"", "Bad"}, t \in {"", "plain"} }

ClientSettled == \E net \in NetOutcomes \cup ErrorOutcomes : client_settle(net)

\* ------------------------------------------- claims on lib/passwordApi

C14_StatusTellsTransportFromBackend ==
    (clPc = "done" /\ API_BASE # <<>>) =>
        /\ (clResult.threw /\ clResult.status = 0) <=> clNet.failed
        /\ (clResult.threw /\ clResult.status # 0) <=>
               (~clNet.failed /\ (clNet.status < 200 \/ clNet.status > 299))
        /\ (clResult.threw /\ clResult.status # 0) => clResult.status = clNet.status
        /\ (~clNet.failed /\ clNet.status >= 200 /\ clNet.status <= 299) => ~clResult.threw

\* C14 witness: requestRecoveryEmail answered 404.
C14_Witness ==
    /\ clPc = "done"
    /\ API_BASE # <<>>
    /\ clCall.fn = "requestRecoveryEmail"
    /\ ~clNet.failed
    /\ clResult.threw
    /\ clResult.status = 404

\* C23: for a response with a status outside 200..299 the call ends in an
\* ApiError with the response's status whose message is the body's message
\* field when the body is JSON that parses and the field is non-empty, else
\* the body's error field on the same condition, else the status text when
\* non-empty, else 'Request failed'; a body that does not parse counts as
\* empty.
C23_ErrorMessagePrecedence ==
    (clPc = "done" /\ API_BASE # <<>> /\ ~clNet.failed
        /\ (clNet.status < 200 \/ clNet.status > 299)) =>
        /\ clResult.threw
        /\ clResult.status = clNet.status
        /\ clResult.message =
               IF clNet.json /\ clNet.parses /\ clNet.message \notin {Undefined, ""}
               THEN clNet.message
               ELSE IF clNet.json /\ clNet.parses /\ clNet.error \notin {Undefined, ""}
               THEN clNet.error
               ELSE IF clNet.statusText # "" THEN clNet.statusText
               ELSE "Request failed"

\* C23 witness: a 400 whose JSON body has an empty message and an error.
C23_Witness ==
    /\ clPc = "done"
    /\ clNet = JsonBody(400, "Bad", "", "e", Undefined, Undefined)
    /\ clResult.threw
    /\ clResult.message = "e"

\* ------------------------------------------------------- useRequestReset

GenericInfo == "Si existe una cuenta con ese correo, se envio un email con instrucciones."
InvalidEmailError == "Ingresa un correo valido"
RequestFallbackError == "Error enviando solicitud"

\* !email || !regex.test(email)
EmailRejected(e) == e = <<>> \/ ~EmailRegexTest(e)

NoLast == [solo |-> FALSE, result |-> NoResult]
NoneShown == <<"none", "none">>

\* setEmail(e), as the email input's onChange calls it.
setEmail(e) ==
    /\ rrEmail' = e
    /\ rrFirst' = IF e = rrEmail THEN rrFirst ELSE NoneShown
    /\ UNCHANGED <<API_BASE, rrLoading, rrError, rrInfo, rrPending, rrSolo, rrLast>>
    /\ UNCHANGED rrOthers

\* Mutant: the catch shows the fallback, not the error's message.
SubmitCatchError_FallbackOnly(err) == RequestFallbackError

\* err?.message || 'Error enviando solicitud'
SubmitCatchError(err) == IF err.message # "" THEN err.message ELSE RequestFallbackError

\* submit(), up to its first suspension.  A rejected email returns at once.
\* Otherwise loading is set and requestRecoveryEmail is called: when
\* buildUrl throws, the promise rejects without a fetch and catch/finally
\* run before any other event; else a fetch is issued and the call pends.
useRequestReset_submit ==
    /\ IF EmailRejected(rrEmail)
       THEN /\ rrError' = InvalidEmailError
            /\ rrInfo' = Null
            /\ rrLast' = NoLast
            /\ rrSolo' = FALSE
            /\ UNCHANGED <<rrLoading, rrPending>>
       ELSE IF buildUrl("/user/recover-password").threw
       THEN /\ rrError' = SubmitCatchError(LocalError("/user/recover-password"))
            /\ rrInfo' = Null
            /\ rrLoading' = FALSE
            /\ rrLast' = [solo |-> rrPending = 0, result |-> LocalError("/user/recover-password")]
            /\ rrSolo' = FALSE
            /\ UNCHANGED rrPending
       ELSE /\ rrPending < MaxInFlight
            /\ rrError' = Null
            /\ rrInfo' = Null
            /\ rrLoading' = TRUE
            /\ rrPending' = rrPending + 1
            /\ rrSolo' = (rrPending = 0)
            /\ rrLast' = NoLast
    /\ UNCHANGED <<API_BASE, rrEmail, rrFirst>>
    /\ UNCHANGED rrOthers

\* Mutant: submit() resumed without its finally block.
useRequestReset_resume_NoFinally(net) ==
    /\ rrPending > 0
    /\ rrPending' = rrPending - 1
    /\ rrSolo' = FALSE
    /\ IF requestRecoveryEmail(rrEmail, net).threw
       THEN /\ rrError' = SubmitCatchError(requestRecoveryEmail(rrEmail, net))
            /\ UNCHANGED rrInfo
       ELSE /\ rrInfo' = GenericInfo
            /\ UNCHANGED rrError
    /\ UNCHANGED rrLoading
    /\ rrLast' = [solo |-> rrSolo, result |-> requestRecoveryEmail(rrEmail, net)]
    /\ rrFirst' = IF rrSolo /\ ~net.failed /\ rrFirst = NoneShown
                  THEN <<rrError', rrInfo'>> ELSE rrFirst
    /\ UNCHANGED <<API_BASE, rrEmail>>
    /\ UNCHANGED rrOthers

\* submit() resumed when the network settles the fetch of a pending call:
\* the try block's setInfo or the catch's setError, then finally.
useRequestReset_resume(net) ==
    /\ rrPending > 0
    /\ rrPending' = rrPending - 1
    /\ rrSolo' = FALSE
    /\ IF requestRecoveryEmail(rrEmail, net).threw
       THEN /\ rrError' = SubmitCatchError(requestRecoveryEmail(rrEmail, net))
            /\ UNCHANGED rrInfo
       ELSE /\ rrInfo' = GenericInfo
            /\ UNCHANGED rrError
    /\ rrLoading' = FALSE
    /\ rrLast' = [solo |-> rrSolo, result |-> requestRecoveryEmail(rrEmail, net)]
    /\ rrFirst' = IF rrSolo /\ ~net.failed /\ rrFirst = NoneShown
                  THEN <<rrError', rrInfo'>> ELSE rrFirst
    /\ UNCHANGED <<API_BASE, rrEmail>>
    /\ UNCHANGED rrOthers

\* useRequestReset(), as constructed.
RequestStart ==
    /\ rrEmail = <<>>
    /\ rrLoading = FALSE
    /\ rrError = Null
    /\ rrInfo = Null
    /\ rrPending = 0
    /\ rrSolo = FALSE
    /\ rrLast = NoLast
    /\ rrFirst = NoneShown

\* The values one keystroke gives the input: a character typed at the end,
\* or the last character deleted.
Keystrokes(e) ==
    { Append(e, c) : c \in IF Len(e) < MaxEmailLen THEN EmailChars ELSE {} }
    \cup IF Len(e) > 0 THEN { SubSeq(e, 1, Len(e) - 1) } ELSE {}

\* Emails pasted whole into the input: empty, without a domain dot,
\* with a blank, two well-formed ones.
SampleEmails ==
    { <<>>, <<"a", "@", "a">>, <<"a", " ", "@", "a", ".", "a">>,
      <<"a", "@", "a", ".", "a">>, <<"a", ".", "a", "@", "a", ".", "a">> }

\* The outcomes the typing specification draws: no answer, a success, a
\* backend rejection.
FewOutcomes ==
    { FetchRejection("Failed to fetch"), TextBody(204, "", ""),
      JsonBody(404, "Not Found", "User not found", Undefined, Undefined, Undefined) }

TypeEmail == \E e \in Keystrokes(rrEmail) : setEmail(e)

PasteEmail == \E e \in SampleEmails : setEmail(e)

TypingNetwork == \E net \in FewOutcomes : useRequestReset_resume(net)

RequestNetwork == \E net \in NetOutcomes : useRequestReset_resume(net)

\* ------------------------------------------- claims on useRequestReset

\* "local-part@domain-with-a-dot" as the specification words it: no blank,
\* an '@' after a non-empty local part, and a dot somewhere after that '@'.
HasLocalAtDomainDot(e) ==
    /\ \A i \in 1..Len(e) : e[i] # " "
    /\ \E k \in 2..Len(e) : e[k] = "@" /\ \E d \in (k + 1)..Len(e) : e[d] = "."

Malformed(e) == e = <<>> \/ ~HasLocalAtDomainDot(e)

\* A step of submit(): the email is kept and no pending call is settled.
IsSubmitStep == rrEmail' = rrEmail /\ rrPending' >= rrPending

\* C1: submit() with an email that is empty or is not
\* local-part@domain-with-a-dot issues no requestRecoveryEmail call, sets a
\* validation error, leaves info null and does not touch loading.
C1_MalformedEmailRejected ==
    [][ (IsSubmitStep /\ Malformed(rrEmail)) =>
            /\ rrPending' = rrPending
            /\ rrLoading' = rrLoading
            /\ rrError' # Null
            /\ rrInfo' = Null ]_vars

\* C1 witness: "a@a" (no dot in the domain) was submitted and rejected.
C1_Witness ==
    /\ rrEmail = <<"a", "@", "a">>
    /\ rrError = InvalidEmailError
    /\ rrInfo = Null
    /\ rrPending = 0
    /\ ~rrLoading

\* C2 (as claimed): two submits of the same well-formed email that each got
\* a response from the backend leave the same (error, info) on screen,
\* whatever the responses were.
C2_SameOutcomeWhateverBackend ==
    (rrLast.solo /\ rrLast.result.origin = "http" /\ rrFirst # NoneShown)
        => <<rrError, rrInfo>> = rrFirst

\* C3: after a single submit() of a well-formed email, a successful
\* requestRecoveryEmail leaves info = the generic confirmation and error
\* null; a transport failure leaves error = the error's message and info
\* null.
C3_SubmitOutcome ==
    rrLast.solo =>
        /\ ~rrLast.result.threw => (rrInfo = GenericInfo /\ rrError = Null)
        /\ (rrLast.result.threw /\ rrLast.result.origin = "transport") =>
                /\ rrError = rrLast.result.message
                /\ rrError # Null
                /\ rrInfo = Null

\* C3 witness: a single submit whose fetch was rejected.
C3_Witness ==
    /\ rrLast.solo
    /\ rrLast.result.origin = "transport"
    /\ rrLast.result.status = 0
    /\ rrError = "Network error or CORS issue: Failed to fetch"
    /\ rrInfo = Null

\* ------------------------------------------------------ useResetPassword

VerifyFallbackError == "Error verificando token"
NoVerifiedEmailError == "Email verificado no disponible"
ShortPasswordError == "La contrasena debe tener al menos 8 caracteres"
PolicyError == "La contrasena no cumple con la politica del servidor"
UpdateFallbackError == "Error actualizando la contrasena"
UpdatedSuccess == "Contrasena actualizada con exito. Puedes iniciar sesion."

\* The shortest password submit() accepts.
HookMinPasswordLength == 8

\* The passwords typed: empty, 7, 8 and 9 characters.
Passwords == {"", "1234567", "12345678", "abcdefghi"}

\* The passwords typed into the page's form.
PagePasswords == {"", "1234567", "12345678"}

\* Mutant: only null counts as absent.
Falsy_NullOnly(x) == x = Null

\* !x for a string-valued field: null, undefined and '' are falsy.
Falsy(x) == x \in {Null, Undefined, ""}

\* What the latest step of the hook did: op; whether it invoked
\* api.updatePassword and with which arguments; the result of the call it
\* completed.
RpEvent(op, invoked, email, password, result) ==
    [op |-> op, invoked |-> invoked, email |-> email, password |-> password,
     result |-> result]

\* verify(), up to its first suspension.
useResetPassword_verify ==
    /\ IF Falsy(rpToken)
       THEN /\ rpIsTokenValid' = Null
            /\ rpVerifiedEmail' = Null
            /\ rpEvent' = RpEvent("verify", FALSE, Null, "", NoResult)
            /\ UNCHANGED <<rpLoadingVerify, rpError, rpVerifyPending, rpLastVerify>>
       ELSE IF buildUrl("/user/verify-token").threw
       THEN /\ rpError' = IF LocalError("/user/verify-token").message # ""
                          THEN LocalError("/user/verify-token").message
                          ELSE VerifyFallbackError
            /\ rpIsTokenValid' = "false"
            /\ rpVerifiedEmail' = Null
            /\ rpLoadingVerify' = FALSE
            /\ rpEvent' = RpEvent("verifyDone", FALSE, Null, "", LocalError("/user/verify-token"))
            /\ rpLastVerify' = LocalError("/user/verify-token")
            /\ UNCHANGED rpVerifyPending
       ELSE /\ rpVerifyPending < MaxInFlight
            /\ rpLoadingVerify' = TRUE
            /\ rpError' = Null
            /\ rpVerifyPending' = rpVerifyPending + 1
            /\ rpEvent' = RpEvent("verify", FALSE, Null, "", NoResult)
            /\ UNCHANGED <<rpIsTokenValid, rpVerifiedEmail, rpLastVerify>>
    /\ UNCHANGED <<rpToken, rpLoadingSubmit, rpSuccess, rpSubmitPending>>
    /\ UNCHANGED <<API_BASE, rpOthers>>

\* verify() resumed when the network settles a pending verifyToken call.
useResetPassword_verify_resume(net) ==
    /\ rpVerifyPending > 0
    /\ rpVerifyPending' = rpVerifyPending - 1
    /\ IF verifyToken(rpToken, net).threw
       THEN /\ rpError' = IF verifyToken(rpToken, net).message # ""
                          THEN verifyToken(rpToken, net).message
                          ELSE VerifyFallbackError
            /\ rpIsTokenValid' = "false"
            /\ rpVerifiedEmail' = Null
       ELSE /\ rpIsTokenValid' = IF verifyToken(rpToken, net).valid THEN "true" ELSE "false"
            /\ rpVerifiedEmail' = verifyToken(rpToken, net).email
            /\ UNCHANGED rpError
    /\ rpLoadingVerify' = FALSE
    /\ rpEvent' = RpEvent("verifyDone", FALSE, Null, "", verifyToken(rpToken, net))
    /\ rpLastVerify' = verifyToken(rpToken, net)
    /\ UNCHANGED <<rpToken, rpLoadingSubmit, rpSuccess, rpSubmitPending>>
    /\ UNCHANGED <<API_BASE, rpOthers>>

\* Mutant: the catch of submit() stores nothing.
UpdateCatchError_Swallow(err) == Null

\* Mutant: the catch of submit() without its 422 branch.
UpdateCatchError_No422(err) ==
    IF err.message # "" THEN err.message ELSE UpdateFallbackError

\* The catch of submit(): 422 is the policy message, else
\* err?.message || 'Error actualizando la contrasena'.
UpdateCatchError(err) ==
    IF err.status = 422 THEN PolicyError
    ELSE IF err.message # "" THEN err.message ELSE UpdateFallbackError

\* submit(password), up to its first suspension.
useResetPassword_submit(password) ==
    /\ rpSuccess' = Null
    /\ IF Falsy(rpVerifiedEmail)
       THEN /\ rpError' = NoVerifiedEmailError
            /\ rpEvent' = RpEvent("submit", FALSE, Null, password, NoResult)
            /\ UNCHANGED <<rpLoadingSubmit, rpSubmitPending>>
       ELSE IF password = "" \/ Len(password) < HookMinPasswordLength
       THEN /\ rpError' = ShortPasswordError
            /\ rpEvent' = RpEvent("submit", FALSE, Null, password, NoResult)
            /\ UNCHANGED <<rpLoadingSubmit, rpSubmitPending>>
       ELSE IF buildUrl("/user/update-password").threw
       THEN /\ rpError' = UpdateCatchError(LocalError("/user/update-password"))
            /\ rpLoadingSubmit' = FALSE
            /\ rpEvent' = RpEvent("submitDone", TRUE, rpVerifiedEmail, password,
                                  LocalError("/user/update-password"))
            /\ UNCHANGED rpSubmitPending
       ELSE /\ rpSubmitPending < MaxInFlight
            /\ rpError' = Null
            /\ rpLoadingSubmit' = TRUE
            /\ rpSubmitPending' = rpSubmitPending + 1
            /\ rpEvent' = RpEvent("submit", TRUE, rpVerifiedEmail, password, NoResult)
    /\ UNCHANGED <<rpToken, rpVerifiedEmail, rpIsTokenValid, rpLoadingVerify,
                   rpVerifyPending, rpLastVerify>>
    /\ UNCHANGED <<API_BASE, rpOthers>>

\* submit() resumed when the network settles a pending updatePassword call.
useResetPassword_submit_resume(net) ==
    /\ rpSubmitPending > 0
    /\ rpSubmitPending' = rpSubmitPending - 1
    /\ IF updatePassword(Null, "", net).threw
       THEN /\ rpError' = UpdateCatchError(updatePassword(Null, "", net))
            /\ UNCHANGED rpSuccess
       ELSE /\ rpSuccess' = UpdatedSuccess
            /\ UNCHANGED rpError
    /\ rpLoadingSubmit' = FALSE
    /\ rpEvent' = RpEvent("submitDone", FALSE, Null, "", updatePassword(Null, "", net))
    /\ UNCHANGED <<rpToken, rpVerifiedEmail, rpIsTokenValid, rpLoadingVerify,
                   rpVerifyPending, rpLastVerify>>
    /\ UNCHANGED <<API_BASE, rpOthers>>

\* useResetPassword(initialToken), as constructed.
ResetInitWith(token) ==
    /\ rpToken = token
    /\ rpVerifiedEmail = Undefined
    /\ rpIsTokenValid = Null
    /\ rpLoadingVerify = FALSE
    /\ rpLoadingSubmit = FALSE
    /\ rpError = Null
    /\ rpSuccess = Null
    /\ rpVerifyPending = 0
    /\ rpSubmitPending = 0
    /\ rpEvent = RpEvent("init", FALSE, Null, "", NoResult)
    /\ rpLastVerify = NoResult

\* The tokens a hook is constructed with: none, empty, a token.
InitialTokens == {Undefined, "", "tok"}

ResetSubmit == \E password \in Passwords : useResetPassword_submit(password)

ResetVerifyNetwork == \E net \in NetOutcomes : useResetPassword_verify_resume(net)

ResetSubmitNetwork == \E net \in NetOutcomes : useResetPassword_submit_resume(net)

\* ------------------------------------------ claims on useResetPassword

\* C4 (as claimed): api.updatePassword is invoked only when the most
\* recently completed verification returned valid:true with a non-null
\* email.
C4_UpdateOnlyAfterValidVerification ==
    rpEvent.invoked =>
        /\ ~rpLastVerify.threw
        /\ rpLastVerify.origin = "http"
        /\ rpLastVerify.valid
        /\ rpLastVerify.email # Null

\* C5: a failed updatePassword with status 422 leaves the fixed policy
\* message as error, whatever the body said; any other failure leaves the
\* error's message, or the generic fallback when the message is empty.
C5_UpdateFailureMessage ==
    (rpEvent.op = "submitDone" /\ rpEvent.result.threw) =>
        rpError = IF rpEvent.result.status = 422 THEN PolicyError
                  ELSE IF rpEvent.result.message # "" THEN rpEvent.result.message
                  ELSE UpdateFallbackError

\* C5 witness: updatePassword failed with 422 and a body message of its own.
C5_Witness ==
    /\ rpEvent.op = "submitDone"
    /\ rpEvent.result.status = 422
    /\ rpEvent.result.message = "Password too weak"
    /\ rpError = PolicyError

\* ------------------------------------------------ pages/reset-password

\* Number(process.env.NEXT_PUBLIC_MIN_PASSWORD_LENGTH) || 8
MIN_PASSWORD_LENGTH == 8

PageShortPasswordError == "La contrasena debe tener al menos 8 caracteres."
PageMismatchError == "Las contrasenas no coinciden."
PageNoEmailError == "No email available from token verification"
PageVerifyFallbackError == "Error verifying token"
PageSubmitFallbackError == "Error enviando la nueva contrasena"

\* The tokens the URL or the paste field carries.
PageTokens == {"t1", "t2"}

\* verifyResult: null (present = FALSE) or { valid, email, message }.
VerifyResult(present, valid, email, message) ==
    [present |-> present, valid |-> valid, email |-> email, message |-> message]

NoVerifyResult == VerifyResult(FALSE, FALSE, Undefined, Undefined)

\* No updatePassword call awaited.
NoCall == [email |-> Null, password |-> ""]

PgEvent(op, result) == [op |-> op, result |-> result]

\* The form of the page is rendered: a token, a valid verifyResult, no
\* success yet.
FormShown ==
    /\ ~Falsy(pgToken)
    /\ pgVerifyResult.present
    /\ pgVerifyResult.valid
    /\ ~pgFormSuccess

\* verifyToken(tok) of the page, up to its await.  When buildUrl throws,
\* the catch and finally run before any other event.
PageVerifyStart(tok) ==
    /\ pgVerifyResult' = NoVerifyResult
    /\ pgResultOf' = tok
    /\ pgUpdatedEmail' = Null
    /\ IF buildUrl("/user/verify-token").threw
       THEN /\ pgVerifying' = FALSE
            /\ pgVerifyError' = IF LocalError("/user/verify-token").message # ""
                                THEN LocalError("/user/verify-token").message
                                ELSE PageVerifyFallbackError
            /\ UNCHANGED pgVerifyPending
       ELSE /\ pgVerifying' = TRUE
            /\ pgVerifyError' = Null
            /\ pgVerifyPending' = [pgVerifyPending EXCEPT ![tok] = @ + 1]

\* How many verifyToken calls of the page await the network.
PageVerifiesInFlight == pgVerifyPending["t1"] + pgVerifyPending["t2"]

\* The router's token changes (a link, the address bar, router.push) and
\* the effect on [token] runs: without a token the previous verification is
\* cleared, else verifyToken(token) is called.
PageNavigate(tok) ==
    /\ tok # pgToken
    /\ pgToken' = tok
    /\ IF Falsy(tok)
       THEN /\ pgVerifyResult' = NoVerifyResult
            /\ pgVerifyError' = Null
            /\ pgResultOf' = Undefined
            /\ pgUpdatedEmail' = Null
            /\ UNCHANGED <<pgVerifying, pgVerifyPending>>
       ELSE /\ PageVerifiesInFlight < MaxInFlight
            /\ PageVerifyStart(tok)
    /\ pgEvent' = PgEvent("navigate", NoResult)
    /\ UNCHANGED <<pgPassword, pgConfirm, pgFormError, pgFormLoading, pgFormSuccess,
                   pgPasteToken, pgSubmitCall>>
    /\ UNCHANGED <<API_BASE, pgOthers>>

\* onChange of the paste-token input, rendered when there is no token.
setPasteToken(tok) ==
    /\ Falsy(pgToken)
    /\ pgPasteToken' = tok
    /\ pgEvent' = PgEvent("input", NoResult)
    /\ UNCHANGED <<pgToken, pgVerifying, pgVerifyError, pgVerifyResult, pgPassword,
                   pgConfirm, pgFormError, pgFormLoading, pgFormSuccess,
                   pgVerifyPending, pgSubmitCall, pgResultOf, pgUpdatedEmail>>
    /\ UNCHANGED <<API_BASE, pgOthers>>

\* onPasteTokenUse: router.push to the pasted token.
onPasteTokenUse ==
    /\ Falsy(pgToken)
    /\ pgPasteToken # ""
    /\ PageNavigate(pgPasteToken)

\* The "Reintentar" button, rendered with verifyError.
PageRetry ==
    /\ ~Falsy(pgToken)
    /\ pgVerifyError # Null
    /\ PageVerifiesInFlight < MaxInFlight
    /\ PageVerifyStart(pgToken)
    /\ pgEvent' = PgEvent("retry", NoResult)
    /\ UNCHANGED <<pgToken, pgPassword, pgConfirm, pgFormError, pgFormLoading,
                   pgFormSuccess, pgPasteToken, pgSubmitCall>>
    /\ UNCHANGED <<API_BASE, pgOthers>>

\* verifyToken(tok) of the page resumed when the network settles it.
PageVerifyResume(tok, net) ==
    /\ pgVerifyPending[tok] > 0
    /\ pgVerifyPending' = [pgVerifyPending EXCEPT ![tok] = @ - 1]
    /\ IF verifyToken(tok, net).threw
       THEN /\ pgVerifyError' = IF verifyToken(tok, net).message # ""
                                THEN verifyToken(tok, net).message
                                ELSE PageVerifyFallbackError
            /\ UNCHANGED <<pgVerifyResult, pgUpdatedEmail>>
       ELSE /\ pgVerifyResult' =
                  VerifyResult(TRUE, verifyToken(tok, net).valid,
                               IF verifyToken(tok, net).email = Null THEN Undefined
                               ELSE verifyToken(tok, net).email,
                               Undefined)
            /\ pgUpdatedEmail' = Null
            /\ UNCHANGED pgVerifyError
    /\ pgResultOf' = tok
    /\ pgVerifying' = FALSE
    /\ pgEvent' = PgEvent("verifyDone", NoResult)
    /\ UNCHANGED <<pgToken, pgPassword, pgConfirm, pgFormError, pgFormLoading,
                   pgFormSuccess, pgPasteToken, pgSubmitCall>>
    /\ UNCHANGED <<API_BASE, pgOthers>>

\* onChange of the two password inputs of the form.
setPassword(p) ==
    /\ FormShown
    /\ pgPassword' = p
    /\ pgEvent' = PgEvent("input", NoResult)
    /\ UNCHANGED <<pgToken, pgVerifying, pgVerifyError, pgVerifyResult, pgConfirm,
                   pgFormError, pgFormLoading, pgFormSuccess, pgPasteToken,
                   pgVerifyPending, pgSubmitCall, pgResultOf, pgUpdatedEmail>>
    /\ UNCHANGED <<API_BASE, pgOthers>>

setConfirm(p) ==
    /\ FormShown
    /\ pgConfirm' = p
    /\ pgEvent' = PgEvent("input", NoResult)
    /\ UNCHANGED <<pgToken, pgVerifying, pgVerifyError, pgVerifyResult, pgPassword,
                   pgFormError, pgFormLoading, pgFormSuccess, pgPasteToken,
                   pgVerifyPending, pgSubmitCall, pgResultOf, pgUpdatedEmail>>
    /\ UNCHANGED <<API_BASE, pgOthers>>

\* validateForm(): the message, or Null.
validateForm ==
    IF pgPassword = "" \/ Len(pgPassword) < MIN_PASSWORD_LENGTH THEN PageShortPasswordError
    ELSE IF pgPassword # pgConfirm THEN PageMismatchError
    ELSE Null

\* err?.message || 'Error enviando la nueva contrasena'
PageSubmitCatchError(err) ==
    IF err.message # "" THEN err.message ELSE PageSubmitFallbackError

\* onSubmitForm, up to its await (the submit button is disabled while
\* formLoading).  A missing email and a throwing buildUrl end in the catch
\* and finally before any other event.
onSubmitForm ==
    /\ FormShown
    /\ ~pgFormLoading
    /\ IF validateForm # Null
       THEN /\ pgFormError' = validateForm
            /\ pgEvent' = PgEvent("submit", NoResult)
            /\ UNCHANGED <<pgFormLoading, pgSubmitCall>>
       ELSE IF Falsy(pgVerifyResult.email)
       THEN /\ pgFormError' = PageNoEmailError
            /\ pgFormLoading' = FALSE
            /\ pgEvent' = PgEvent("submit", NoResult)
            /\ UNCHANGED pgSubmitCall
       ELSE IF buildUrl("/user/update-password").threw
       THEN /\ pgFormError' = PageSubmitCatchError(LocalError("/user/update-password"))
            /\ pgFormLoading' = FALSE
            /\ pgEvent' = PgEvent("submitDone", LocalError("/user/update-password"))
            /\ UNCHANGED pgSubmitCall
       ELSE /\ pgFormError' = Null
            /\ pgFormLoading' = TRUE
            /\ pgSubmitCall' = [email |-> pgVerifyResult.email, password |-> pgPassword]
            /\ pgEvent' = PgEvent("submit", NoResult)
    /\ UNCHANGED <<pgToken, pgVerifying, pgVerifyError, pgVerifyResult, pgPassword,
                   pgConfirm, pgFormSuccess, pgPasteToken, pgVerifyPending,
                   pgResultOf, pgUpdatedEmail>>
    /\ UNCHANGED <<API_BASE, pgOthers>>

\* onSubmitForm resumed when the network settles its updatePassword call.
onSubmitForm_resume(net) ==
    /\ pgSubmitCall # NoCall
    /\ pgSubmitCall' = NoCall
    /\ IF updatePassword(pgSubmitCall.email, pgSubmitCall.password, net).threw
       THEN /\ pgFormError' =
                  PageSubmitCatchError(updatePassword(pgSubmitCall.email, pgSubmitCall.password, net))
            /\ UNCHANGED <<pgFormSuccess, pgUpdatedEmail>>
       ELSE /\ pgFormSuccess' = TRUE
            /\ pgUpdatedEmail' = pgSubmitCall.email
            /\ UNCHANGED pgFormError
    /\ pgFormLoading' = FALSE
    /\ pgEvent' = PgEvent("submitDone", updatePassword(pgSubmitCall.email, pgSubmitCall.password, net))
    /\ UNCHANGED <<pgToken, pgVerifying, pgVerifyError, pgVerifyResult, pgPassword,
                   pgConfirm, pgPasteToken, pgVerifyPending, pgResultOf>>
    /\ UNCHANGED <<API_BASE, pgOthers>>

\* ResetPasswordPage at its first render: router.query is still empty.
PageStart ==
    /\ pgToken = Undefined
    /\ pgVerifying = FALSE
    /\ pgVerifyError = Null
    /\ pgVerifyResult = NoVerifyResult
    /\ pgPassword = ""
    /\ pgConfirm = ""
    /\ pgFormError = Null
    /\ pgFormLoading = FALSE
    /\ pgFormSuccess = FALSE
    /\ pgPasteToken = ""
    /\ pgVerifyPending = [t \in PageTokens |-> 0]
    /\ pgSubmitCall = NoCall
    /\ pgEvent = PgEvent("init", NoResult)
    /\ pgResultOf = Undefined
    /\ pgUpdatedEmail = Null

PageUrlChange == \E tok \in PageTokens \cup {Undefined} : PageNavigate(tok)

PagePasteInput == \E tok \in PageTokens \cup {""} : setPasteToken(tok)

PagePasswordInput == \E p \in PagePasswords : setPassword(p)

PageConfirmInput == \E p \in PagePasswords : setConfirm(p)

\* The outcomes the page's calls draw: no answer, the verification bodies,
\* a policy rejection, a server error.
PageOutcomes ==
    { FetchRejection("Failed to fetch"),
      JsonBody(200, "OK", Undefined, Undefined, "true", "user@example.com"),
      JsonBody(200, "OK", Undefined, Undefined, "true", Undefined),
      JsonBody(200, "OK", Undefined, Undefined, "false", "user@example.com"),
      JsonBody(422, "", "Password too weak", "policy", Undefined, Undefined),
      TextBody(500, "Internal Server Error", "plain text") }

PageVerifyNetwork == \E tok \in PageTokens : \E net \in PageOutcomes : PageVerifyResume(tok, net)

PageSubmitNetwork == \E net \in PageOutcomes : onSubmitForm_resume(net)

\* ------------------------------------- claims on pages/reset-password

\* C6 (as claimed): when updatePassword fails with status 422,
\* onSubmitForm shows the policy-violation message, not the raw message of
\* the server.
C6_PageMaps422ToPolicyMessage ==
    (pgEvent.op = "submitDone" /\ pgEvent.result.threw /\ pgEvent.result.status = 422) =>
        /\ pgFormError = PolicyError
        /\ pgFormError # pgEvent.result.message

\* C22 (as claimed): in the page, once no verification is pending,
\* verifyResult and verifyError are null when there is no token, and
\* otherwise were written by the verification of the current token, never by
\* that of an earlier token.
C22_SupersededVerifyIgnored ==
    PageVerifiesInFlight = 0 =>
        IF pgToken \in {Undefined, ""}
        THEN /\ pgVerifyResult = NoVerifyResult
             /\ pgVerifyError = Null
        ELSE (pgVerifyResult.present \/ pgVerifyError # Null) => pgResultOf = pgToken

\* C26 (as claimed): whenever the page shows the update-success state
\* (formSuccess with a valid verifyResult), an updatePassword call has
\* succeeded, for the email of the verification shown, since that
\* verification was stored.
C26_SuccessBannerSound ==
    (pgFormSuccess /\ pgVerifyResult.present /\ pgVerifyResult.valid) =>
        /\ pgUpdatedEmail # Null
        /\ pgUpdatedEmail = pgVerifyResult.email

\* --------------------------------------- pages/api/proxy/user/[...slug]

\* BACKEND_BASE values, as sequences of atoms ("localhost" is an atom of
\* its own wherever the text contains it): the default, the default with a
\* trailing slash, another host, a host whose name contains "localhost".
BackendBases ==
    { <<"http://", "localhost", ":8080">>,
      <<"http://", "localhost", ":8080", "/">>,
      <<"http://", "backend", ":8080">>,
      <<"http://", "my", "localhost", ".dev">> }

\* The header names that are hop-by-hop.
hopByHop ==
    { "connection", "keep-alive", "proxy-authenticate", "proxy-authorization",
      "te", "trailers", "transfer-encoding", "upgrade" }

\* k.toLowerCase(), on the header names of the model.
ToLowerCase(k) ==
    CASE k = "Connection" -> "connection"
      [] k = "Upgrade" -> "upgrade"
      [] k = "Host" -> "host"
      [] OTHER -> k

\* A header of req.headers: its value is a string (isArray = FALSE, one
\* element) or an array of strings.
Header(name, isArray, vals) == [name |-> name, isArray |-> isArray, vals |-> vals]

\* A header with a string value, as forwarded, and as fetch gives it.
Plain(name, value) == [name |-> name, value |-> value]

\* !v
HeaderValueFalsy(h) == ~h.isArray /\ h.vals[1] = ""

\* v.join(',')
RECURSIVE JoinComma(_)
JoinComma(vals) ==
    IF Len(vals) = 0 THEN ""
    ELSE IF Len(vals) = 1 THEN vals[1]
    ELSE vals[1] \o "," \o JoinComma(Tail(vals))

\* stripHopByHopHeaders(headers)
stripHopByHopHeaders(headers) ==
    { Plain(h.name, IF h.isArray THEN JoinComma(h.vals) ELSE h.vals[1]) :
        h \in { x \in headers :
                  ~HeaderValueFalsy(x) /\ ToLowerCase(x.name) \notin hopByHop } }

\* encodeURIComponent, on the atoms of the model.
encodeURIComponent(a) ==
    CASE a = "a b" -> "a%20b"
      [] a = "x&y" -> "x%26y"
      [] OTHER -> a

\* slug.join('/'), as atoms.
RECURSIVE JoinSlash(_)
JoinSlash(slug) ==
    IF Len(slug) = 0 THEN <<>>
    ELSE IF Len(slug) = 1 THEN <<slug[1]>>
    ELSE <<slug[1], "/">> \o JoinSlash(Tail(slug))

\* An entry of req.query: a key with a string (isArray = FALSE, one
\* element) or an array of strings.
Entry(k, isArray, vals) == [k |-> k, isArray |-> isArray, vals |-> vals]

\* The [k, v] pairs of one entry (the flatMap of the handler).
PairsOf(entry) == [i \in 1..Len(entry.vals) |-> <<entry.k, entry.vals[i]>>]

RECURSIVE FlatPairs(_)
FlatPairs(entries) ==
    IF Len(entries) = 0 THEN <<>>
    ELSE PairsOf(Head(entries)) \o FlatPairs(Tail(entries))

\* The entries of req.query other than slug.
WithoutSlug(entries) == SelectSeq(entries, LAMBDA en : en.k # "slug")

\* pairs.map(([k, v]) => encode(k)=encode(v)).join('&'), as atoms.
RECURSIVE JoinAmp(_)
JoinAmp(pairs) ==
    IF Len(pairs) = 0 THEN <<>>
    ELSE IF Len(pairs) = 1
         THEN <<encodeURIComponent(pairs[1][1]), "=", encodeURIComponent(pairs[1][2])>>
    ELSE <<encodeURIComponent(pairs[1][1]), "=", encodeURIComponent(pairs[1][2]), "&">>
             \o JoinAmp(Tail(pairs))

QueryString(req) == JoinAmp(FlatPairs(WithoutSlug(req.query)))

\* The slug entry of req.query.
SlugOf(req) == SelectSeq(req.query, LAMBDA en : en.k = "slug")[1].vals

\* `${BACKEND_BASE.replace(/\/$/, '')}/user/${path}${qs ? `?${qs}` : ''}`
backendUrl(req) ==
    StripTrailingSlash(BACKEND_BASE) \o <<"/user/">> \o JoinSlash(SlugOf(req))
        \o IF QueryString(req) # <<>> THEN <<"?">> \o QueryString(req) ELSE <<>>

\* delete forwardedHeaders.host
forwardedHeaders(req) == { h \in stripHopByHopHeaders(req.headers) : h.name # "host" }

\* JSON.stringify(req.body ?? {}), on the bodies of the model.
JSONstringify(b) ==
    CASE b = Undefined -> "{}"
      [] b = "object" -> "{\"email\":\"user@example.com\",\"password\":\"12345678\"}"
      [] OTHER -> "\"" \o b \o "\""

\* The body of the forwarded request (Undefined: none).
forwardedBody(req) ==
    IF req.method \in {"GET", "HEAD", "OPTIONS"} THEN Undefined ELSE JSONstringify(req.body)

\* fetch(url, { method, headers, body, redirect: 'follow' })
Fetch(url, req) ==
    [url |-> url, method |-> req.method, headers |-> forwardedHeaders(req),
     body |-> forwardedBody(req)]

\* An error a fetch rejects with: its message, the text of its cause
\* (Undefined: none), its code (Undefined: none), and whether the
\* connection was in fact refused.
FetchError(refused, message, cause, code) ==
    [refused |-> refused, message |-> message, cause |-> cause, code |-> code]

NoError == FetchError(FALSE, "", Undefined, Undefined)

FetchErrors ==
    { FetchError(TRUE, "fetch failed", "Error: connect ECONNREFUSED 127.0.0.1:8080", Undefined),
      FetchError(TRUE, "connect ECONNREFUSED", Undefined, "ECONNREFUSED"),
      FetchError(FALSE, "fetch failed", "Error: getaddrinfo ENOTFOUND backend", Undefined),
      FetchError(FALSE, "The operation was aborted", Undefined, Undefined) }

\* The errors the reading of the body rejects with.
ReadErrors == { FetchError(FALSE, "terminated", "Error: other side closed", Undefined) }

\* text.includes('ECONNREFUSED'), on the texts of the model.
IncludesECONNREFUSED(text) ==
    text \in { "Error: connect ECONNREFUSED 127.0.0.1:8080", "connect ECONNREFUSED",
               "Error: connect ECONNREFUSED" }

\* String(err): the error's name and message.
StringOfError(err) == "Error: " \o err.message

\* causeStr.includes('ECONNREFUSED') || err?.code === 'ECONNREFUSED'
isConnRefused(err) ==
    \/ IncludesECONNREFUSED(IF err.cause # Undefined THEN err.cause ELSE StringOfError(err))
    \/ err.code = "ECONNREFUSED"

\* backendUrl.includes('localhost')
IncludesLocalhost(url) == \E i \in 1..Len(url) : url[i] = "localhost"

\* The first index at which url holds "localhost".
FirstLocalhost(url) ==
    CHOOSE i \in 1..Len(url) : url[i] = "localhost" /\ \A j \in 1..(i - 1) : url[j] # "localhost"

\* backendUrl.replace('localhost', '127.0.0.1'): the first occurrence.
ReplaceLocalhost(url) == [url EXCEPT ![FirstLocalhost(url)] = "127.0.0.1"]

\* if (isConnRefused && backendUrl.includes('localhost'))
ShouldRetry(err, url) == isConnRefused(err) /\ IncludesLocalhost(url)

\* The response a backend gives: status, headers, raw body.
BackendResponse(status, headers, body) == [status |-> status, headers |-> headers, body |-> body]

NoBackendResponse == BackendResponse(0, {}, "")

BackendHeaderSets ==
    { { Plain("content-type", "application/json") },
      { Plain("content-type", "application/json"), Plain("connection", "close"),
        Plain("keep-alive", "timeout=5"), Plain("transfer-encoding", "chunked") },
      { Plain("content-type", "text/plain"), Plain("upgrade", "h2c"),
        Plain("proxy-authenticate", "Basic"), Plain("trailers", "x"), Plain("te", "gzip"),
        Plain("proxy-authorization", "Basic abc") } }

BackendResponses ==
    { BackendResponse(st, hs, b) :
        st \in {200, 502}, hs \in BackendHeaderSets, b \in {"{\"valid\":true}"} }

\* The response object res: the status set, the headers set, how many
\* times a response was sent, and the body sent: the raw bytes of
\* res.send(buffer) or the object of res.json(...).
ResBody(kind, raw, error, details) ==
    [kind |-> kind, raw |-> raw, error |-> error, details |-> details]

NoBody == ResBody("none", "", "", "")

\* The headers the forEach of the handler sets on res.
RelayedHeaders(headers) ==
    { h \in headers : ToLowerCase(h.name) \notin {"transfer-encoding", "connection", "keep-alive"} }

\* res.status(502).json({ error: 'Bad gateway', details }): json sets the
\* content type and sends.
BadGateway(res, err) ==
    [statusCode |-> 502,
     headers |-> { h \in res.headers : ToLowerCase(h.name) # "content-type" }
                   \cup { Plain("Content-Type", "application/json; charset=utf-8") },
     sent |-> res.sent + 1,
     body |-> ResBody("json", "", "Bad gateway", err.message)]

\* The handler, from its start to the first fetch.
proxy_handler(req) ==
    /\ pxPc = "idle"
    /\ pxReq' = req
    /\ pxFetches' = << Fetch(backendUrl(req), req) >>
    /\ pxPc' = "fetch1"
    /\ UNCHANGED <<BACKEND_BASE, pxBackendRes, pxRes, pxErr, pxFailure>>
    /\ UNCHANGED pxOthers

\* A fetch resolves: the status and the headers are set on res, and the
\* body is awaited.
proxy_fetch_ok(bres) ==
    /\ pxPc \in {"fetch1", "fetch2"}
    /\ pxBackendRes' = bres
    /\ pxRes' = [pxRes EXCEPT !.statusCode = bres.status,
                              !.headers = RelayedHeaders(bres.headers)]
    /\ pxPc' = "reading"
    /\ UNCHANGED <<BACKEND_BASE, pxReq, pxFetches, pxErr, pxFailure>>
    /\ UNCHANGED pxOthers

\* The first fetch rejects: the retry against 127.0.0.1, or the error is
\* rethrown to the outer catch.
proxy_fetch1_fail(err) ==
    /\ pxPc = "fetch1"
    /\ pxErr' = err
    /\ IF ShouldRetry(err, pxFetches[1].url)
       THEN /\ pxFetches' = Append(pxFetches, Fetch(ReplaceLocalhost(pxFetches[1].url), pxReq))
            /\ pxPc' = "fetch2"
            /\ UNCHANGED <<pxRes, pxFailure>>
       ELSE /\ pxRes' = BadGateway(pxRes, err)
            /\ pxFailure' = "first"
            /\ pxPc' = "done"
            /\ UNCHANGED pxFetches
    /\ UNCHANGED <<BACKEND_BASE, pxReq, pxBackendRes>>
    /\ UNCHANGED pxOthers

\* Mutant: a rejected retry is retried again.
proxy_fetch2_fail_RetriesAgain(err) ==
    /\ pxPc = "fetch2"
    /\ Len(pxFetches) < 4
    /\ pxFetches' = Append(pxFetches, pxFetches[2])
    /\ UNCHANGED <<BACKEND_BASE, pxPc, pxReq, pxBackendRes, pxErr, pxRes, pxFailure>>
    /\ UNCHANGED pxOthers

\* Mutant: the rejection of the retry escapes the handler.
proxy_fetch2_fail_Escapes(err) ==
    /\ pxPc = "fetch2"
    /\ pxFailure' = "retry"
    /\ pxPc' = "done"
    /\ UNCHANGED <<BACKEND_BASE, pxReq, pxFetches, pxBackendRes, pxErr, pxRes>>
    /\ UNCHANGED pxOthers

\* The retry rejects: the outer catch answers.
proxy_fetch2_fail(err) ==
    /\ pxPc = "fetch2"
    /\ pxRes' = BadGateway(pxRes, err)
    /\ pxFailure' = "retry"
    /\ pxPc' = "done"
    /\ UNCHANGED <<BACKEND_BASE, pxReq, pxFetches, pxBackendRes, pxErr>>
    /\ UNCHANGED pxOthers

\* backendRes.arrayBuffer() resolves: res.send(buffer).
proxy_read_ok ==
    /\ pxPc = "reading"
    /\ pxRes' = [pxRes EXCEPT !.sent = @ + 1,
                              !.body = ResBody("raw", pxBackendRes.body, "", "")]
    /\ pxPc' = "done"
    /\ UNCHANGED <<BACKEND_BASE, pxReq, pxFetches, pxBackendRes, pxErr, pxFailure>>
    /\ UNCHANGED pxOthers

\* backendRes.arrayBuffer() rejects: the outer catch answers.
proxy_read_fail(err) ==
    /\ pxPc = "reading"
    /\ pxRes' = BadGateway(pxRes, err)
    /\ pxFailure' = "read"
    /\ pxPc' = "done"
    /\ UNCHANGED <<BACKEND_BASE, pxReq, pxFetches, pxBackendRes, pxErr>>
    /\ UNCHANGED pxOthers

\* The inbound requests.
Methods == {"GET", "HEAD", "OPTIONS", "POST"}

Slugs == { <<"verify-token">>, <<"localhost">>, <<"a", "update-password">> }

Queries ==
    { <<>>,
      << Entry("token", FALSE, <<"abc">>) >>,
      << Entry("token", FALSE, <<"localhost">>) >>,
      << Entry("tag", TRUE, <<"a b", "x&y">>), Entry("token", FALSE, <<"abc">>) >> }

RequestHeaderSets ==
    { { Header("host", FALSE, <<"localhost:3000">>),
        Header("content-type", FALSE, <<"application/json">>) },
      { Header("host", FALSE, <<"localhost:3000">>),
        Header("connection", FALSE, <<"keep-alive">>),
        Header("keep-alive", FALSE, <<"timeout=5">>),
        Header("proxy-authenticate", FALSE, <<"Basic">>),
        Header("proxy-authorization", FALSE, <<"Basic abc">>),
        Header("te", FALSE, <<"trailers">>),
        Header("trailers", FALSE, <<"x">>),
        Header("transfer-encoding", FALSE, <<"chunked">>),
        Header("upgrade", FALSE, <<"websocket">>),
        Header("accept", FALSE, <<"*/*">>) },
      { Header("host", FALSE, <<"localhost:3000">>),
        Header("set-cookie", TRUE, <<"a=1", "b=2">>) },
      { Header("host", FALSE, <<"localhost:3000">>),
        Header("x-flag", FALSE, <<"">>),
        Header("accept", FALSE, <<"*/*">>) } }

Bodies == {Undefined, "object"}

\* The request as Next.js hands it to the handler: req.query holds the
\* captured sub-path under slug, and the query parameters.
InboundRequest(method, slug, query, headers, body) ==
    [method |-> method, query |-> << Entry("slug", TRUE, slug) >> \o query,
     headers |-> headers, body |-> body]

NoRequest == InboundRequest("", <<>>, <<>>, {}, Undefined)

InboundRequests ==
    { InboundRequest(m, sl, q, hs, b) :
        m \in Methods, sl \in Slugs, q \in Queries, hs \in RequestHeaderSets, b \in Bodies }

ProxyStart ==
    /\ pxPc = "idle"
    /\ pxReq = NoRequest
    /\ pxFetches = <<>>
    /\ pxBackendRes = NoBackendResponse
    /\ pxRes = [statusCode |-> 200, headers |-> {}, sent |-> 0, body |-> NoBody]
    /\ pxErr = NoError
    /\ pxFailure = "none"

ProxyOff == BACKEND_BASE = <<"http://", "localhost", ":8080">> /\ ProxyStart

ProxyReceive == \E req \in InboundRequests : proxy_handler(req)

ProxyFetchOk == \E bres \in BackendResponses : proxy_fetch_ok(bres)

ProxyFetch1Fail == \E err \in FetchErrors : proxy_fetch1_fail(err)

ProxyFetch2Fail == \E err \in FetchErrors : proxy_fetch2_fail(err)

ProxyReadFail == \E err \in ReadErrors : proxy_read_fail(err)

\* ------------------------------------------------- claims on the proxy

\* The atoms that end the authority's host name in a URL.
EndsHostname(a) == a \in {":8080", "/", "/user/", "?"}

\* The index of the first atom after the host name of url.
HostnameEnd(url) ==
    CHOOSE i \in 2..Len(url) : EndsHostname(url[i]) /\ \A j \in 2..(i - 1) : ~EndsHostname(url[j])

\* The host name of url, as atoms.
Hostname(url) == SubSeq(url, 2, HostnameEnd(url) - 1)

\* url with its host name replaced.
WithHostname(url, host) ==
    <<url[1], host>> \o SubSeq(url, HostnameEnd(url), Len(url))

\* decodeURIComponent, on the atoms of the model.
decodeURIComponent(a) ==
    CASE a = "a%20b" -> "a b"
      [] a = "x%26y" -> "x&y"
      [] OTHER -> a

\* The index of the "?" of url, Len(url) + 1 when it has none.
QueryStart(url) ==
    IF \E i \in 1..Len(url) : url[i] = "?"
    THEN CHOOSE i \in 1..Len(url) : url[i] = "?" /\ \A j \in 1..(i - 1) : url[j] # "?"
    ELSE Len(url) + 1

\* The decoded [k, v] pairs of a query string k=v&k=v, given as atoms.
RECURSIVE ParseQuery(_)
ParseQuery(atoms) ==
    IF Len(atoms) < 3 THEN <<>>
    ELSE << <<decodeURIComponent(atoms[1]), decodeURIComponent(atoms[3])>> >>
             \o ParseQuery(SubSeq(atoms, 5, Len(atoms)))

\* C7 (as claimed): once the first fetch is settled, the proxy has made a
\* second fetch exactly when the first one failed with a refused connection
\* and the host name of the backend URL is localhost; the second fetch goes to
\* the same URL with the host name replaced by 127.0.0.1.
C7_RetryOnlyForLocalhostHostname ==
    pxPc \notin {"idle", "fetch1"} =>
        /\ (Len(pxFetches) = 2) <=>
               (pxErr.refused /\ Hostname(pxFetches[1].url) = <<"localhost">>)
        /\ Len(pxFetches) = 2 =>
               pxFetches[2].url = WithHostname(pxFetches[1].url, "127.0.0.1")

\* C8 (as claimed): the forwarded request goes to <BACKEND_BASE>/user/P,
\* P the inbound sub-path, with the inbound query parameters other than slug;
\* it has the inbound method; it carries every inbound header except the eight
\* hop-by-hop ones and host; it has a body only when the method is not GET,
\* HEAD or OPTIONS.
C8_ForwardedRequest ==
    pxPc # "idle" =>
        LET f == pxFetches[1]
            q == QueryStart(f.url)
        IN /\ SubSeq(f.url, 1, q - 1) =
                  StripTrailingSlash(BACKEND_BASE) \o <<"/user/">> \o JoinSlash(SlugOf(pxReq))
           /\ ParseQuery(SubSeq(f.url, q + 1, Len(f.url))) = FlatPairs(WithoutSlug(pxReq.query))
           /\ f.method = pxReq.method
           /\ f.headers =
                  { Plain(h.name, JoinComma(h.vals)) :
                      h \in { x \in pxReq.headers :
                                ToLowerCase(x.name) \notin hopByHop \cup {"host"} } }
           /\ f.body # Undefined => pxReq.method \notin {"GET", "HEAD", "OPTIONS"}

\* C9 (as claimed): when the forwarding succeeded, the response has the
\* backend's status and body, and the backend's headers except the eight
\* hop-by-hop ones.
C9_RelayedResponse ==
    (pxPc = "done" /\ pxFailure = "none") =>
        /\ pxRes.statusCode = pxBackendRes.status
        /\ pxRes.body = ResBody("raw", pxBackendRes.body, "", "")
        /\ pxRes.headers = { h \in pxBackendRes.headers : ToLowerCase(h.name) \notin hopByHop }

\* C10: the handler never sends more than one response, and when it has
\* ended it has sent exactly one: after a failure of the first fetch, of the
\* retry or of the reading of the body, status 502 with error 'Bad gateway';
\* when the forwarding succeeded, the backend's status and bytes, never the
\* proxy's own 502.
C10_ExactlyOneResponse ==
    /\ pxRes.sent <= 1
    /\ pxPc = "done" =>
           /\ pxRes.sent = 1
           /\ pxFailure # "none" =>
                  /\ pxRes.statusCode = 502
                  /\ pxRes.body.kind = "json"
                  /\ pxRes.body.error = "Bad gateway"
           /\ pxFailure = "none" =>
                  /\ pxRes.statusCode = pxBackendRes.status
                  /\ pxRes.body.kind = "raw"
                  /\ pxRes.body.error # "Bad gateway"

\* The retry against 127.0.0.1 was refused too, and the proxy answered 502.
C10_Witness ==
    /\ pxPc = "done"
    /\ pxFailure = "retry"
    /\ Len(pxFetches) = 2
    /\ pxRes.sent = 1
    /\ pxRes.statusCode = 502

\* C21: the proxy issues at most two fetches for one inbound request; it
\* issues the second only when the first has been rejected; and the second
\* has the method, the headers and the body of the first.
C21_AtMostOneRetry ==
    /\ Len(pxFetches) <= 2
    /\ Len(pxFetches) = 2 =>
           /\ pxErr # NoError
           /\ pxFetches[2].method = pxFetches[1].method
           /\ pxFetches[2].headers = pxFetches[1].headers
           /\ pxFetches[2].body = pxFetches[1].body

\* C21 witness: a POST with a body whose first fetch was refused and whose
\* retry was answered.
C21_Witness ==
    /\ Len(pxFetches) = 2
    /\ pxPc = "reading"
    /\ pxErr.refused
    /\ pxFetches[2].method = "POST"
    /\ pxFetches[2].body # Undefined
    /\ pxFetches[2].url # pxFetches[1].url

\* ------------------------------------------ the mock verify-token endpoint

\* req.query.token: absent, a string, or an array of strings (the parameter
\* given more than once).  A token is a sequence of atoms, "valid" an atom
\* of its own wherever the text contains it.
TokenParam(kind, vals) == [kind |-> kind, vals |-> vals]

MockTokens ==
    { <<>>, <<"valid">>, <<"valid", "-1">>, <<"in", "valid">>, <<"Valid">>, <<"val">>,
      <<"x">> }

TokenParams ==
    { TokenParam("absent", <<>>) }
    \cup { TokenParam("string", <<t>>) : t \in MockTokens }
    \cup { TokenParam("array", <<t, u>>) :
             t \in {<<>>, <<"valid">>, <<"x">>}, u \in {<<"valid">>, <<"x">>} }

MockVerifyMethods == {"GET", "POST", "HEAD", "PUT", "DELETE"}

MockVerifyRequest(method, token, other) == [method |-> method, token |-> token, other |-> other]

MockVerifyRequests ==
    { MockVerifyRequest(m, tp, o) :
        m \in MockVerifyMethods, tp \in TokenParams, o \in {Undefined, "1"} }

\* What a mock endpoint answers: the status, how many responses were sent,
\* and the JSON body (kind "none": end() without a body).
MockResponse(statusCode, sent, kind, valid, email, ok, message) ==
    [statusCode |-> statusCode, sent |-> sent,
     body |-> [kind |-> kind, valid |-> valid, email |-> email, ok |-> ok,
               message |-> message]]

NoMockResponse == MockResponse(200, 0, "none", Undefined, Undefined, Undefined, Undefined)

\* Array.isArray(token) ? token[0] : token, for a token that is present.
FirstToken(tp) == tp.vals[1]

\* !t: the token is absent, or the one taken is ''.
TokenMissing(tp) == tp.kind = "absent" \/ FirstToken(tp) = <<>>

\* Mutant: 'valid' anywhere in the token.
StartsWithValid_Includes(t) == \E i \in 1..Len(t) : t[i] = "valid"

\* String(t).startsWith('valid')
StartsWithValid(t) == Len(t) >= 1 /\ t[1] = "valid"

\* handler(req, res) of the mock verification.
mock_verify_handler(req) ==
    /\ mvPc \in {"idle", "done"}
    /\ mvReq' = req
    /\ mvPc' = "done"
    /\ mvRes' =
           IF req.method # "GET"
           THEN MockResponse(405, 1, "none", Undefined, Undefined, Undefined, Undefined)
           ELSE IF TokenMissing(req.token)
           THEN MockResponse(400, 1, "json", "false", Undefined, Undefined, "token missing")
           ELSE IF StartsWithValid(FirstToken(req.token))
           THEN MockResponse(200, 1, "json", "true", "user@example.com", Undefined, Undefined)
           ELSE MockResponse(200, 1, "json", "false", Undefined, Undefined,
                             "Token invalido o expirado")
    /\ UNCHANGED mvOthers

MockVerifyStart ==
    /\ mvPc = "idle"
    /\ mvReq = MockVerifyRequest("", TokenParam("absent", <<>>), Undefined)
    /\ mvRes = NoMockResponse

MockVerifyHandles == \E req \in MockVerifyRequests : mock_verify_handler(req)

\* ------------------------------------------ pages/api/user/update-password

\* A field of req.body: absent, a string, or a number (written as text).
Field(t, v) == [t |-> t, v |-> v]

Absent == Field("undefined", "")

\* !x for a field.
FieldFalsy(x) ==
    \/ x.t = "undefined"
    \/ x.t = "string" /\ x.v = ""
    \/ x.t = "number" /\ x.v = "0"

MockEmails == { Absent, Field("string", ""), Field("string", "user@example.com"), Field("number", "5") }

MockPasswords ==
    { Absent, Field("string", ""), Field("string", "1234567"), Field("string", "12345678"),
      Field("string", "123456789"), Field("number", "12345678"), Field("number", "0") }

\* req.body (present = FALSE: no body, req.body || {} is {}).
MockBody(present, email, password) == [present |-> present, email |-> email, password |-> password]

MockUpdateRequest(method, body) == [method |-> method, body |-> body]

MockUpdateRequests ==
    { MockUpdateRequest(m, b) :
        m \in {"POST", "GET", "PUT", "DELETE"},
        b \in { MockBody(FALSE, Absent, Absent) }
              \cup { MockBody(TRUE, e, pw) : e \in MockEmails, pw \in MockPasswords } }

\* Mutant: passwords of exactly 8 characters are refused.
PasswordRefused_Over8(pw) == pw.t # "string" \/ Len(pw.v) <= 8

\* typeof password !== 'string' || password.length < 8
PasswordRefused(pw) == pw.t # "string" \/ Len(pw.v) < 8

\* handler(req, res) up to its return or to the await of the timer.
mock_update_handler(req) ==
    /\ muPc \in {"idle", "done"}
    /\ muReq' = req
    /\ IF req.method # "POST"
       THEN /\ muRes' = MockResponse(405, 1, "none", Undefined, Undefined, Undefined, Undefined)
            /\ muPc' = "done"
       ELSE IF FieldFalsy(req.body.email) \/ FieldFalsy(req.body.password)
       THEN /\ muRes' = MockResponse(400, 1, "json", Undefined, Undefined, Undefined,
                                     "email and password required")
            /\ muPc' = "done"
       ELSE IF PasswordRefused(req.body.password)
       THEN /\ muRes' = MockResponse(400, 1, "json", Undefined, Undefined, Undefined,
                                     "password must be at least 8 characters")
            /\ muPc' = "done"
       ELSE /\ muRes' = NoMockResponse
            /\ muPc' = "waiting"
    /\ UNCHANGED muOthers

\* The timer of 300 ms fires: the handler answers.
mock_update_timer ==
    /\ muPc = "waiting"
    /\ muRes' = MockResponse(200, muRes.sent + 1, "json", Undefined, Undefined, "true",
                             "Password updated (mock)")
    /\ muPc' = "done"
    /\ UNCHANGED muReq
    /\ UNCHANGED muOthers

MockUpdateStart ==
    /\ muPc = "idle"
    /\ muReq = MockUpdateRequest("", MockBody(FALSE, Absent, Absent))
    /\ muRes = NoMockResponse

MockUpdateHandles == \E req \in MockUpdateRequests : mock_update_handler(req)

\* Both mock endpoints before any request.
MocksOff == MockVerifyStart /\ MockUpdateStart

\* ------------------------------------------------ claims on both hooks

\* C11 (as claimed): each hook instance has at most one network call in
\* flight at any time: useRequestReset at most one requestRecoveryEmail,
\* useResetPassword at most one of verifyToken and updatePassword.
C11_OneCallInFlight ==
    /\ rrPending <= 1
    /\ rpVerifyPending + rpSubmitPending <= 1

\* A step that is a call of useResetPassword's submit(password).
IsHookSubmitCall ==
    \/ rpEvent'.op = "submit"
    \/ rpEvent'.op = "submitDone" /\ rpEvent'.invoked

\* C12: submit(password) with no verified email held (null, undefined or
\* empty), or with a password that is empty or shorter than 8 characters, sets
\* an error, does not touch loadingSubmit, invokes no updatePassword and adds
\* no network call; any other submit(password) invokes updatePassword once,
\* with the held verifiedEmail and the given password, and, with a base
\* configured, adds exactly one network call.
C12_SubmitLocalRejection ==
    [][ IsHookSubmitCall =>
          IF \/ rpVerifiedEmail \in {Null, Undefined, ""}
             \/ rpEvent'.password = ""
             \/ Len(rpEvent'.password) < 8
          THEN /\ rpError' # Null
               /\ rpLoadingSubmit' = rpLoadingSubmit
               /\ rpSubmitPending' = rpSubmitPending
               /\ ~rpEvent'.invoked
          ELSE /\ rpEvent'.invoked
               /\ rpEvent'.email = rpVerifiedEmail
               /\ rpSubmitPending' =
                      IF API_BASE # <<>> THEN rpSubmitPending + 1 ELSE rpSubmitPending
      ]_vars

\* C12 witness: an email is held, the password given has 7 characters, and
\* submit was rejected without a call.
C12_Witness ==
    /\ rpEvent.op = "submit"
    /\ ~rpEvent.invoked
    /\ rpEvent.password = "1234567"
    /\ rpVerifiedEmail = "user@example.com"
    /\ rpError = ShortPasswordError
    /\ rpSubmitPending = 0

\* C15: whatever the client call of a hook ended in, the hook's operation
\* ran to its end; when the call ended in an error (the local error of an
\* unset base, a transport failure, an ApiError of any status) the hook's
\* error field holds a non-empty string.
C15_HooksCatchAllErrors ==
    /\ rrLast.result.threw => (rrError # Null /\ rrError # "")
    /\ (rpEvent.op \in {"verifyDone", "submitDone"} /\ rpEvent.result.threw) =>
           (rpError # Null /\ rpError # "")

\* C15 witness: the request hook's call ended in a transport failure, and
\* the reset hook's latest call in a 500 with an unparsable body.
C15_Witness ==
    /\ rrLast.result.threw
    /\ rrLast.result.origin = "transport"
    /\ rrError = "Network error or CORS issue: Failed to fetch"
    /\ rpEvent.op \in {"verifyDone", "submitDone"}
    /\ rpEvent.result.threw
    /\ rpEvent.result.status = 500
    /\ rpError = "Request failed"

\* C16 (as claimed): in every state of the hooks at most one outcome field
\* is populated: error and info of useRequestReset are never both non-null,
\* error and success of useResetPassword are never both non-null.
C16_OneOutcomeField ==
    /\ ~(rrError # Null /\ rrInfo # Null)
    /\ ~(rpError # Null /\ rpSuccess # Null)

\* C17 (as claimed): an email is present only when valid is true: the
\* hook's verifiedEmail is non-null only when isTokenValid is true, and a
\* value returned by verifyToken has a non-null email only when its valid is
\* true.
C17_EmailOnlyWhenValid ==
    /\ rpVerifiedEmail \notin {Null, Undefined} => rpIsTokenValid = "true"
    /\ (rpEvent.op = "verifyDone" /\ ~rpEvent.result.threw /\ rpEvent.result.email # Null) =>
           rpEvent.result.valid

\* C18 (as claimed): verify() of a hook that has no token issues no call
\* and leaves isTokenValid null, verifiedEmail null and error null, whatever
\* the state before; in the page, when the token has become absent,
\* verifyResult and verifyError are cleared.
C18_NoTokenState ==
    /\ (rpEvent.op = "verify" /\ rpToken \in {Undefined, ""}) =>
           /\ rpVerifyPending = 0
           /\ rpIsTokenValid = Null
           /\ rpVerifiedEmail = Null
           /\ rpError = Null
    /\ (pgEvent.op = "navigate" /\ pgToken \in {Undefined, ""}) =>
           /\ pgVerifyResult = NoVerifyResult
           /\ pgVerifyError = Null

\* ------------------------------------------ claims on the mock endpoints

\* C19: the mock verification answers a GET whose token is missing or
\* empty with 400; a GET whose token starts with 'valid' with 200,
\* valid:true and the email 'user@example.com'; any other GET with 200,
\* valid:false and a message; and no answer has valid:true with another or
\* no email.  Of a token given several times the first value counts.
C19_MockVerifyAnswers ==
    mvPc = "done" =>
        /\ mvRes.sent = 1
        /\ mvReq.method = "GET" =>
               IF mvReq.token.kind = "absent" \/ mvReq.token.vals[1] = <<>>
               THEN /\ mvRes.statusCode = 400
                    /\ mvRes.body.valid # "true"
               ELSE IF SubSeq(mvReq.token.vals[1], 1, 1) = <<"valid">>
               THEN /\ mvRes.statusCode = 200
                    /\ mvRes.body.valid = "true"
                    /\ mvRes.body.email = "user@example.com"
               ELSE /\ mvRes.statusCode = 200
                    /\ mvRes.body.valid = "false"
                    /\ mvRes.body.message \notin {Undefined, ""}
        /\ mvRes.body.valid = "true" => mvRes.body.email = "user@example.com"

\* C19 witness: a GET with the token 'invalid', which contains 'valid'
\* without starting with it.
C19_Witness ==
    /\ mvPc = "done"
    /\ mvReq.method = "GET"
    /\ mvReq.token = TokenParam("string", << <<"in", "valid">> >>)
    /\ mvRes.statusCode = 200
    /\ mvRes.body.valid = "false"

\* C20: a POST to the mock update with a non-empty email and a string
\* password of at least 8 characters has no response while the handler
\* waits, and exactly one, 200 with ok:true, when it has ended; a POST with
\* the email missing, the password missing or a password of fewer than 8
\* characters is answered 400 without ok:true.
C20_MockUpdateAnswers ==
    /\ muRes.sent <= 1
    /\ muReq.method = "POST" =>
           LET e == muReq.body.email
               pw == muReq.body.password
           IN IF /\ e.t # "undefined" /\ e.v # ""
                 /\ pw.t = "string" /\ Len(pw.v) >= 8
              THEN /\ muPc = "waiting" =>
                          (muRes.sent = 0 /\ muRes.body.kind = "none")
                   /\ muPc = "done" =>
                          /\ muRes.sent = 1
                          /\ muRes.statusCode = 200
                          /\ muRes.body.ok = "true"
              ELSE IF \/ e.t = "undefined" \/ e.v = ""
                      \/ pw.t = "undefined" \/ pw.v = ""
                      \/ pw.t = "string" /\ Len(pw.v) < 8
              THEN /\ muPc = "done"
                   /\ muRes.sent = 1
                   /\ muRes.statusCode = 400
                   /\ muRes.body.ok # "true"
              ELSE TRUE

\* C20 witness: a POST with a password of exactly 8 characters, answered.
C20_Witness ==
    /\ muPc = "done"
    /\ muReq.method = "POST"
    /\ muReq.body.email = Field("string", "user@example.com")
    /\ muReq.body.password = Field("string", "12345678")
    /\ muRes.sent = 1
    /\ muRes.statusCode = 200
    /\ muRes.body.ok = "true"

\* ------------------------------------------------ claims on the loading flags

\* C24: each loading flag is true exactly while a call of its flow awaits
\* the network: loading with requestRecoveryEmail, loadingVerify with
\* verifyToken, loadingSubmit with updatePassword.
C24_LoadingIffInFlight ==
    /\ rrLoading <=> rrPending > 0
    /\ rpLoadingVerify <=> rpVerifyPending > 0
    /\ rpLoadingSubmit <=> rpSubmitPending > 0

\* ------------------------------------------------- claims on flow termination

\* C25: when the network settles every call it is given, a flow with a
\* call awaiting the network comes to a state where its loading flag is
\* false and an outcome is recorded: error or info for the request flow,
\* error or a verification verdict for verify, error or success for submit.
C25_FlowsTerminate ==
    /\ (rrPending > 0) ~> (~rrLoading /\ (rrError # Null \/ rrInfo # Null))
    /\ (rpVerifyPending > 0) ~> (~rpLoadingVerify /\ (rpError # Null \/ rpIsTokenValid # Null))
    /\ (rpSubmitPending > 0) ~> (~rpLoadingSubmit /\ (rpError # Null \/ rpSuccess # Null))

\* C25 witness: each flow had a call settled by the network and is at rest,
\* the request flow with its info, verify with a verdict, submit with its
\* success.
C25_Witness ==
    /\ rrPending = 0 /\ ~rrLoading /\ rrInfo = GenericInfo
    /\ rpVerifyPending = 0 /\ ~rpLoadingVerify /\ rpIsTokenValid = "true"
    /\ rpSubmitPending = 0 /\ ~rpLoadingSubmit /\ rpSuccess = UpdatedSuccess

\* -------------------------------------------------------- specifications

\* The process configuration.
ConfigInit == API_BASE \in ApiBases

\* The request-reset hook, its email typed key by key.
TypingInit == ConfigInit /\ RequestStart /\ ResetInitWith(Undefined) /\ PageStart /\ ProxyOff /\ ClientStart /\ MocksOff

TypingNext == TypeEmail \/ useRequestReset_submit \/ TypingNetwork

SpecTyping == TypingInit /\ [][TypingNext]_vars

\* The request-reset hook with every outcome of the network.
RequestInit == ConfigInit /\ RequestStart /\ ResetInitWith(Undefined) /\ PageStart /\ ProxyOff /\ ClientStart /\ MocksOff

RequestNext == PasteEmail \/ useRequestReset_submit \/ RequestNetwork

SpecRequest == RequestInit /\ [][RequestNext]_vars

\* The verify+update hook.
ResetInit ==
    /\ ConfigInit
    /\ RequestStart
    /\ \E token \in InitialTokens : ResetInitWith(token)
    /\ PageStart
    /\ ProxyOff
    /\ ClientStart /\ MocksOff

ResetNext ==
    \/ useResetPassword_verify
    \/ ResetSubmit
    \/ ResetVerifyNetwork
    \/ ResetSubmitNetwork

SpecReset == ResetInit /\ [][ResetNext]_vars

\* The reset-password page.
PageInit == ConfigInit /\ RequestStart /\ ResetInitWith(Undefined) /\ PageStart /\ ProxyOff /\ ClientStart /\ MocksOff

PageNext ==
    \/ PageUrlChange
    \/ PagePasteInput
    \/ onPasteTokenUse
    \/ PageRetry
    \/ PagePasswordInput
    \/ PageConfirmInput
    \/ onSubmitForm
    \/ PageVerifyNetwork
    \/ PageSubmitNetwork

SpecPage == PageInit /\ [][PageNext]_vars

\* The development proxy, one inbound request.
ProxyInit ==
    /\ API_BASE = <<>>
    /\ RequestStart
    /\ ResetInitWith(Undefined)
    /\ PageStart
    /\ BACKEND_BASE \in BackendBases
    /\ ProxyStart
    /\ ClientStart /\ MocksOff

ProxyNext ==
    \/ ProxyReceive
    \/ ProxyFetchOk
    \/ ProxyFetch1Fail
    \/ ProxyFetch2Fail
    \/ proxy_read_ok
    \/ ProxyReadFail

SpecProxy == ProxyInit /\ [][ProxyNext]_vars

\* The API client, one call.
ClientInit == ConfigInit /\ RequestStart /\ ResetInitWith(Undefined) /\ PageStart /\ ProxyOff /\ ClientStart /\ MocksOff

ClientNext == ClientCalled \/ ClientSettled

SpecClient == ClientInit /\ [][ClientNext]_vars

\* Both hooks mounted together, each with its own calls in flight.
HookEmails == { <<"a", "@", "a">>, <<"a", "@", "a", ".", "a">> }

HookOutcomes ==
    { FetchRejection("Failed to fetch"),
      JsonBody(200, "OK", Undefined, Undefined, "true", "user@example.com"),
      BrokenBody(500, "", TRUE) }

HooksInit ==
    /\ ConfigInit
    /\ RequestStart
    /\ ResetInitWith("tok")
    /\ PageStart
    /\ ProxyOff
    /\ ClientStart /\ MocksOff

HooksNext ==
    \/ \E e \in HookEmails : setEmail(e)
    \/ useRequestReset_submit
    \/ \E net \in HookOutcomes : useRequestReset_resume(net)
    \/ useResetPassword_verify
    \/ \E password \in {"1234567", "12345678"} : useResetPassword_submit(password)
    \/ \E net \in HookOutcomes : useResetPassword_verify_resume(net)
    \/ \E net \in HookOutcomes : useResetPassword_submit_resume(net)

SpecHooks == HooksInit /\ [][HooksNext]_vars

\* Both hooks, where every call that awaits the network is eventually
\* settled by it: the promise of fetch resolves or rejects.
FlowOutcomes ==
    { FetchRejection("Failed to fetch"),
      JsonBody(200, "OK", Undefined, Undefined, "true", "user@example.com") }

FlowsNext ==
    \/ setEmail(<<"a", "@", "a", ".", "a">>)
    \/ useRequestReset_submit
    \/ \E net \in FlowOutcomes : useRequestReset_resume(net)
    \/ useResetPassword_verify
    \/ useResetPassword_submit("12345678")
    \/ \E net \in FlowOutcomes : useResetPassword_verify_resume(net)
    \/ \E net \in FlowOutcomes : useResetPassword_submit_resume(net)

NetworkSettles ==
    /\ WF_vars(\E net \in FlowOutcomes : useRequestReset_resume(net))
    /\ WF_vars(\E net \in FlowOutcomes : useResetPassword_verify_resume(net))
    /\ WF_vars(\E net \in FlowOutcomes : useResetPassword_submit_resume(net))

SpecFlowsFair == HooksInit /\ [][FlowsNext]_vars /\ NetworkSettles

\* The mock verification endpoint, request after request.
MockVerifyInit ==
    /\ API_BASE = <<>>
    /\ RequestStart
    /\ ResetInitWith(Undefined)
    /\ PageStart
    /\ ProxyOff
    /\ ClientStart /\ MocksOff

MockVerifyNext == MockVerifyHandles

SpecMockVerify == MockVerifyInit /\ [][MockVerifyNext]_vars

\* The mock update endpoint, request after request.
MockUpdateInit ==
    /\ API_BASE = <<>>
    /\ RequestStart
    /\ ResetInitWith(Undefined)
    /\ PageStart
    /\ ProxyOff
    /\ ClientStart /\ MocksOff

MockUpdateNext == MockUpdateHandles \/ mock_update_timer

SpecMockUpdate == MockUpdateInit /\ [][MockUpdateNext]_vars

Init == ResetInit

Next == ResetNext

Spec == Init /\ [][Next]_vars

====
